---- MODULE Spec2Model ----
(***************************************************************************)
(* Starship game (Bedotech/a_game): the simulation step of src/src/game.c, *)
(* the physics helpers of src/src/physics.c, the SDL callbacks of          *)
(* src/src/main.c and the socket bridge of src/agent/utils/game_bridge.c.  *)
(*                                                                         *)
(* Representation of C floats: every float is an integer count of 1/F      *)
(* (fixed point, F = 100), so 1.0f is F, 0.5f is F \div 2 and a position   *)
(* of 13.5 pixels is 1350.  delta_time is kept in the milliseconds that    *)
(* SDL_GetTicks returns; the division by 1000.0f of main.c is done where   *)
(* delta_time is multiplied in.  With the sampled inputs below every       *)
(* product is an exact multiple of the unit, so no rounding takes place.   *)
(***************************************************************************)
EXTENDS Integers, Sequences, FiniteSets, TLC

----------------------------------------------------------------------------
(* Units: F counts per 1.0f; SDL_GetTicks counts per second (main.c 107) *)

F == 100
MS_PER_SEC == 1000

(* Constants of src/include/common.h *)

SCREEN_WIDTH == 1024
SCREEN_HEIGHT == 768
STARSHIP_SPEED == 300
ASTEROID_MIN_SPEED == 50
ASTEROID_MAX_SPEED == 200
ASTEROID_SIZE == 40
PROJECTILE_SPEED == 500
PROJECTILE_WIDTH == 8
PROJECTILE_HEIGHT == 3

(* Pool capacities.  common.h has 50 and 10; the pools are scaled down so   *)
(* that a full pool is reached within the explored runs, and kept large     *)
(* enough for the hits of one tick to carry the score over two multiples of *)
(* 50 (six hits of 10 points).                                              *)
MAX_ASTEROIDS == 6
MAX_PROJECTILES == 6

(* Number of callbacks (SDL_AppEvent, SDL_AppIterate) explored per run.     *)
MaxSteps == 4

(* the null pointer *)
NULL == [null |-> TRUE]

Max(a, b) == IF a > b THEN a ELSE b
Min(a, b) == IF a < b THEN a ELSE b

----------------------------------------------------------------------------
(* Entities (common.h Entity).  rotation is written by asteroid_update and  *)
(* read only by the renderer; it is not part of the model.  The contents    *)
(* of an inactive slot are never read by the code (every read is guarded by *)
(* entity.active), so an inactive slot is represented by one fixed value.   *)

InactiveProjectile ==
    [x |-> 0, y |-> 0, vx |-> 0, vy |-> 0, w |-> 0, h |-> 0, active |-> FALSE]

InactiveAsteroid ==
    [x |-> 0, y |-> 0, vx |-> 0, vy |-> 0, w |-> 0, h |-> 0, active |-> FALSE, size |-> 0]

AsteroidSlots == 1..MAX_ASTEROIDS
ProjectileSlots == 1..MAX_PROJECTILES

----------------------------------------------------------------------------
(* src/src/physics.c *)

physics_update_entity(e, dt) ==
    IF ~e.active THEN e
    ELSE [e EXCEPT !.x = @ + (e.vx * dt) \div MS_PER_SEC,
                   !.y = @ + (e.vy * dt) \div MS_PER_SEC]

physics_apply_boundary_constraints(e, min_x, max_x, min_y, max_y) ==
    IF ~e.active THEN e
    ELSE LET x1 == IF e.x < min_x THEN min_x ELSE e.x
             x2 == IF x1 > max_x - e.w THEN max_x - e.w ELSE x1
             y1 == IF e.y < min_y THEN min_y ELSE e.y
             y2 == IF y1 > max_y - e.h THEN max_y - e.h ELSE y1
         IN  [e EXCEPT !.x = x2, !.y = y2]

physics_entity_to_rectangle(e) == [x |-> e.x, y |-> e.y, w |-> e.w, h |-> e.h]

physics_check_collision(a, b) ==
    /\ a.x < b.x + b.w
    /\ a.x + a.w > b.x
    /\ a.y < b.y + b.h
    /\ a.y + a.h > b.y

physics_entities_collide(a, b) ==
    /\ a.active
    /\ b.active
    /\ physics_check_collision(physics_entity_to_rectangle(a), physics_entity_to_rectangle(b))

physics_clamp_entity_position(e, screen_width, screen_height) ==
    IF ~e.active THEN e
    ELSE physics_apply_boundary_constraints(e, 0, screen_width, 0, screen_height)

----------------------------------------------------------------------------
(* src/src/game.c: construction *)

starship_init ==
    [x |-> 100 * F, y |-> (SCREEN_HEIGHT * F) \div 2, vx |-> 0, vy |-> 0,
     w |-> 70 * F, h |-> 30 * F, active |-> TRUE]

game_state_create ==
    [starship          |-> starship_init,
     asteroids         |-> [i \in AsteroidSlots |-> InactiveAsteroid],
     projectiles       |-> [i \in ProjectileSlots |-> InactiveProjectile],
     asteroid_count    |-> 0,
     projectile_count  |-> 0,
     available_shots   |-> 3,
     last_shot_score   |-> 0,
     game_over         |-> FALSE,
     delta_time        |-> 0,
     score             |-> 0,
     rl_mode           |-> FALSE,
     cumulative_reward |-> 0,
     last_reward       |-> 0,
     prev_score        |-> 0,
     speed_multiplier  |-> F,
     spawn_accumulator |-> 0]

game_state_set_rl_mode(s, enabled) ==
    IF s = NULL THEN s ELSE [s EXCEPT !.rl_mode = enabled]

game_state_set_speed_multiplier(s, multiplier) ==
    IF s = NULL THEN s ELSE [s EXCEPT !.speed_multiplier = multiplier]

----------------------------------------------------------------------------
(* src/src/game.c: entities *)

(* random_float(min, max) = min + (rand() / RAND_MAX) * (max - min); r is   *)
(* the value of rand() / RAND_MAX, in 0..F.                                 *)
random_float(r, min, max) == min + (r * (max - min)) \div F

(* variant: the starship is moved and not clamped *)
starship_update_NoClamp(ship, dt) ==
    IF ~ship.active THEN ship ELSE physics_update_entity(ship, dt)

starship_update(ship, dt) ==
    IF ~ship.active THEN ship
    ELSE physics_clamp_entity_position(physics_update_entity(ship, dt),
                                       SCREEN_WIDTH * F, SCREEN_HEIGHT * F)

projectile_init(x, y, speed_multiplier) ==
    [x |-> x, y |-> y, vx |-> (PROJECTILE_SPEED * F * speed_multiplier) \div F, vy |-> 0,
     w |-> PROJECTILE_WIDTH * F, h |-> PROJECTILE_HEIGHT * F, active |-> TRUE]

projectile_update(p, dt) ==
    IF ~p.active THEN p ELSE physics_update_entity(p, dt)

(* draw holds the two rand() results asteroid_init consumes *)
asteroid_init(x, y, size, base_speed_multiplier, draw) ==
    [x |-> x, y |-> y,
     vx |-> -((random_float(draw.speed, ASTEROID_MIN_SPEED * F, ASTEROID_MAX_SPEED * F)
               * base_speed_multiplier) \div F),
     vy |-> (random_float(draw.drift, -50 * F, 50 * F) * base_speed_multiplier) \div F,
     w |-> size, h |-> size, active |-> TRUE, size |-> size]

asteroid_update(a, dt) ==
    IF ~a.active THEN a
    ELSE LET e == physics_update_entity(a, dt)
         IN  IF e.y < 0 \/ e.y > SCREEN_HEIGHT * F
             THEN [e EXCEPT !.vy = -e.vy]
             ELSE e

FirstInactive(pool, slots) ==
    LET free == {i \in slots : ~pool[i].active}
    IN  IF free = {} THEN 0 ELSE CHOOSE i \in free : \A k \in free : i <= k

(* spawn_asteroid with the count test of game.c 361 gone and the          *)
(* asteroid_count++ of line 375 moved out of the slot search: an asteroid *)
(* that found no slot is counted                                          *)
spawn_asteroid_CountAnyway(s, draw) ==
    IF s = NULL THEN s
    ELSE LET base  == F + ((s.score \div 10) * F) \div 10
             base_speed_multiplier == IF base > (5 * F) \div 2 THEN (5 * F) \div 2 ELSE base
             total_speed_multiplier == (base_speed_multiplier * s.speed_multiplier) \div F
             i == FirstInactive(s.asteroids, AsteroidSlots)
             y == random_float(draw.y, 0, (SCREEN_HEIGHT - ASTEROID_SIZE) * F)
         IN  IF i = 0 THEN [s EXCEPT !.asteroid_count = @ + 1]
             ELSE [s EXCEPT
                     !.asteroids[i] = asteroid_init(SCREEN_WIDTH * F, y, ASTEROID_SIZE * F,
                                                    total_speed_multiplier, draw),
                     !.asteroid_count = @ + 1]

(* game.c 360-378 *)
spawn_asteroid(s, draw) ==
    IF s = NULL \/ s.asteroid_count >= MAX_ASTEROIDS THEN s
    ELSE LET base  == F + ((s.score \div 10) * F) \div 10
             base_speed_multiplier == IF base > (5 * F) \div 2 THEN (5 * F) \div 2 ELSE base
             total_speed_multiplier == (base_speed_multiplier * s.speed_multiplier) \div F
             i == FirstInactive(s.asteroids, AsteroidSlots)
             y == random_float(draw.y, 0, (SCREEN_HEIGHT - ASTEROID_SIZE) * F)
         IN  IF i = 0 THEN s
             ELSE [s EXCEPT
                     !.asteroids[i] = asteroid_init(SCREEN_WIDTH * F, y, ASTEROID_SIZE * F,
                                                    total_speed_multiplier, draw),
                     !.asteroid_count = @ + 1]

(* spawn_projectile without the ammunition test of game.c 414 *)
spawn_projectile_NoAmmoTest(s) ==
    IF s = NULL \/ s.projectile_count >= MAX_PROJECTILES THEN s
    ELSE LET i == FirstInactive(s.projectiles, ProjectileSlots)
             x == s.starship.x + s.starship.w
             y == s.starship.y + s.starship.h \div 2 - (PROJECTILE_HEIGHT * F) \div 2
         IN  IF i = 0 THEN s
             ELSE [s EXCEPT
                     !.projectiles[i] = projectile_init(x, y, s.speed_multiplier),
                     !.projectile_count = @ + 1,
                     !.available_shots = @ - 1]

(* game.c 412-427 *)
spawn_projectile(s) ==
    IF s = NULL \/ s.projectile_count >= MAX_PROJECTILES THEN s
    ELSE IF s.available_shots <= 0 THEN s
    ELSE LET i == FirstInactive(s.projectiles, ProjectileSlots)
             x == s.starship.x + s.starship.w
             y == s.starship.y + s.starship.h \div 2 - (PROJECTILE_HEIGHT * F) \div 2
         IN  IF i = 0 THEN s
             ELSE [s EXCEPT
                     !.projectiles[i] = projectile_init(x, y, s.speed_multiplier),
                     !.projectile_count = @ + 1,
                     !.available_shots = @ - 1]

----------------------------------------------------------------------------
(* src/src/game.c: the stages of game_state_update, in source order *)

(* game.c 72-74 *)
UpdateStarship(s, dt) ==
    [s EXCEPT !.delta_time = dt, !.starship = starship_update(s.starship, dt)]

(* game.c 76-87 *)
UpdateProjectiles(s, dt) ==
    LET moved == [i \in ProjectileSlots |-> projectile_update(s.projectiles[i], dt)]
        gone  == {i \in ProjectileSlots :
                    moved[i].active /\ moved[i].x > SCREEN_WIDTH * F}
    IN  [s EXCEPT
           !.projectiles = [i \in ProjectileSlots |->
                              IF i \in gone THEN InactiveProjectile ELSE moved[i]],
           !.projectile_count = @ - Cardinality(gone)]

(* the retirement of game.c 89-100 without the asteroid_count-- of line 96 *)
UpdateAsteroids_KeepCount(s, dt) ==
    LET moved == [i \in AsteroidSlots |-> asteroid_update(s.asteroids[i], dt)]
        gone  == {i \in AsteroidSlots : moved[i].active /\ moved[i].x < -moved[i].size}
    IN  [s EXCEPT
           !.asteroids = [i \in AsteroidSlots |->
                            IF i \in gone THEN InactiveAsteroid ELSE moved[i]],
           !.score = @ + Cardinality(gone)]

(* game.c 89-100 *)
(* variant: an asteroid leaving the arena costs a point *)
UpdateAsteroids_LosePoint(s, dt) ==
    LET moved == [i \in AsteroidSlots |-> asteroid_update(s.asteroids[i], dt)]
        gone  == {i \in AsteroidSlots : moved[i].active /\ moved[i].x < -moved[i].size}
    IN  [s EXCEPT
           !.asteroids = [i \in AsteroidSlots |->
                            IF i \in gone THEN InactiveAsteroid ELSE moved[i]],
           !.asteroid_count = @ - Cardinality(gone),
           !.score = @ - Cardinality(gone)]

UpdateAsteroids(s, dt) ==
    LET moved == [i \in AsteroidSlots |-> asteroid_update(s.asteroids[i], dt)]
        gone  == {i \in AsteroidSlots : moved[i].active /\ moved[i].x < -moved[i].size}
    IN  [s EXCEPT
           !.asteroids = [i \in AsteroidSlots |->
                            IF i \in gone THEN InactiveAsteroid ELSE moved[i]],
           !.asteroid_count = @ - Cardinality(gone),
           !.score = @ + Cardinality(gone)]

(* game.c 102-106 *)
AwardShot(s) ==
    IF s.score > 0 /\ s.score \div 50 > s.last_shot_score \div 50
    THEN [s EXCEPT !.available_shots = @ + 1, !.last_shot_score = s.score]
    ELSE s

(* variant: the rate is not capped *)
SpawnRate_NoCap(s) == F \div 2 + (s.score * F) \div 100

(* game.c 110-113 *)
SpawnRate(s) ==
    LET spawn_rate == F \div 2 + (s.score * F) \div 100
    IN  IF spawn_rate > 2 * F THEN 2 * F ELSE spawn_rate

(* game.c 116 *)
Accumulate(s, dt) ==
    [s EXCEPT !.spawn_accumulator = @ + (dt * SpawnRate(s)) \div MS_PER_SEC]

(* game.c 118-121; draws[k] holds the rand() results of the k-th call of    *)
(* spawn_asteroid in this tick                                              *)
RECURSIVE SpawnLoop(_, _, _)
(* variant: at most one spawn per tick *)
SpawnLoop_OncePerTick(s, draws, k) ==
    IF s.spawn_accumulator >= F
    THEN [spawn_asteroid(s, draws[k]) EXCEPT !.spawn_accumulator = @ - F]
    ELSE s

SpawnLoop(s, draws, k) ==
    IF s.spawn_accumulator >= F
    THEN SpawnLoop([spawn_asteroid(s, draws[k]) EXCEPT !.spawn_accumulator = @ - F],
                   draws, k + 1)
    ELSE s

RECURSIVE ISqrtIter(_, _, _)
ISqrtIter(n, lo, hi) ==
    IF lo >= hi THEN lo
    ELSE LET mid == (lo + hi + 1) \div 2
         IN  IF mid * mid <= n THEN ISqrtIter(n, mid, hi) ELSE ISqrtIter(n, lo, mid - 1)

(* sqrtf on fixed-point operands: the largest r with r * r <= n *)
sqrtf(n) == ISqrtIter(n, 0, Min(n, 46340))

(* variant: the pair bounces whether it approaches or separates *)
AsteroidPair_AlwaysBounce(asts, i, j) ==
    IF ~physics_entities_collide(asts[i], asts[j]) THEN asts
    ELSE LET dx0 == asts[j].x - asts[i].x
             dy0 == asts[j].y - asts[i].y
             distance == sqrtf(dx0 * dx0 + dy0 * dy0)
         IN  IF ~(distance > 0) THEN asts
             ELSE LET dx  == (dx0 * F) \div distance
                      dy  == (dy0 * F) \div distance
                      dvx == asts[j].vx - asts[i].vx
                      dvy == asts[j].vy - asts[i].vy
                      dvn == (dvx * dx + dvy * dy) \div F
                  IN  [asts EXCEPT
                         ![i].vx = @ + (dvn * dx) \div F,
                         ![i].vy = @ + (dvn * dy) \div F,
                         ![j].vx = @ - (dvn * dx) \div F,
                         ![j].vy = @ - (dvn * dy) \div F]

(* game.c 130-167: the response for the pair (i, j) *)
AsteroidPair(asts, i, j) ==
    IF ~physics_entities_collide(asts[i], asts[j]) THEN asts
    ELSE LET dx0 == asts[j].x - asts[i].x
             dy0 == asts[j].y - asts[i].y
             distance == sqrtf(dx0 * dx0 + dy0 * dy0)
         IN  IF ~(distance > 0) THEN asts
             ELSE LET dx  == (dx0 * F) \div distance
                      dy  == (dy0 * F) \div distance
                      dvx == asts[j].vx - asts[i].vx
                      dvy == asts[j].vy - asts[i].vy
                      dvn == (dvx * dx + dvy * dy) \div F
                      bounced == [asts EXCEPT
                                    ![i].vx = @ + (dvn * dx) \div F,
                                    ![i].vy = @ + (dvn * dy) \div F,
                                    ![j].vx = @ - (dvn * dx) \div F,
                                    ![j].vy = @ - (dvn * dy) \div F]
                      overlap == (asts[i].size \div 2 + asts[j].size \div 2) - distance
                      separation == overlap \div 2 + F \div 2
                  IN  IF ~(dvn < 0) THEN asts
                      ELSE IF ~(overlap > 0) THEN bounced
                      ELSE [bounced EXCEPT
                              ![i].x = @ - (dx * separation) \div F,
                              ![i].y = @ - (dy * separation) \div F,
                              ![j].x = @ + (dx * separation) \div F,
                              ![j].y = @ + (dy * separation) \div F]

(* game.c 124-169: the two nested loops *)
RECURSIVE AsteroidPairs(_, _, _)
AsteroidPairs(asts, i, j) ==
    IF i > MAX_ASTEROIDS THEN asts
    ELSE IF ~asts[i].active \/ j > MAX_ASTEROIDS THEN AsteroidPairs(asts, i + 1, i + 2)
    ELSE IF ~asts[j].active THEN AsteroidPairs(asts, i, j + 1)
    ELSE AsteroidPairs(AsteroidPair(asts, i, j), i, j + 1)

CheckAsteroidCollisions(s) ==
    [s EXCEPT !.asteroids = AsteroidPairs(s.asteroids, 1, 2)]

RECURSIVE ProjectileHits(_, _)

(* the loop of game.c 172-188 without the break of line 185: a projectile *)
(* goes on to every asteroid it overlaps                                  *)
ProjectileHits_NoBreak(s, i) ==
    IF i > MAX_PROJECTILES THEN s
    ELSE IF ~s.projectiles[i].active THEN ProjectileHits(s, i + 1)
    ELSE LET hit == {j \in AsteroidSlots :
                       s.asteroids[j].active
                       /\ physics_entities_collide(s.projectiles[i], s.asteroids[j])}
         IN  IF hit = {} THEN ProjectileHits(s, i + 1)
             ELSE ProjectileHits([s EXCEPT
                                    !.projectiles[i] = InactiveProjectile,
                                    !.projectile_count = @ - 1,
                                    !.asteroids = [j \in AsteroidSlots |->
                                                     IF j \in hit THEN InactiveAsteroid
                                                     ELSE s.asteroids[j]],
                                    !.asteroid_count = @ - Cardinality(hit),
                                    !.score = @ + 10 * Cardinality(hit)],
                                 i + 1)

(* game.c 172-188 *)
ProjectileHits(s, i) ==
    IF i > MAX_PROJECTILES THEN s
    ELSE IF ~s.projectiles[i].active THEN ProjectileHits(s, i + 1)
    ELSE LET hit == {j \in AsteroidSlots :
                       s.asteroids[j].active
                       /\ physics_entities_collide(s.projectiles[i], s.asteroids[j])}
             j == CHOOSE m \in hit : \A k \in hit : m <= k
         IN  IF hit = {} THEN ProjectileHits(s, i + 1)
             ELSE ProjectileHits([s EXCEPT
                                    !.projectiles[i] = InactiveProjectile,
                                    !.projectile_count = @ - 1,
                                    !.asteroids[j] = InactiveAsteroid,
                                    !.asteroid_count = @ - 1,
                                    !.score = @ + 10],
                                 i + 1)

CheckProjectileCollisions(s) == ProjectileHits(s, 1)

(* the loop of game.c 191-199 retiring the asteroids the starship overlaps, *)
(* as the projectile stage does with the ones a projectile overlaps        *)
CheckStarshipCollisions_RetireObstacle(s) ==
    LET hit == {i \in AsteroidSlots :
                  s.asteroids[i].active /\ physics_entities_collide(s.starship, s.asteroids[i])}
    IN  IF hit = {} THEN s
        ELSE [s EXCEPT !.game_over = TRUE,
                       !.asteroids = [i \in AsteroidSlots |->
                                        IF i \in hit THEN InactiveAsteroid ELSE s.asteroids[i]],
                       !.asteroid_count = @ - Cardinality(hit)]

(* game.c 191-199 *)
CheckStarshipCollisions(s) ==
    IF \E i \in AsteroidSlots :
          s.asteroids[i].active /\ physics_entities_collide(s.starship, s.asteroids[i])
    THEN [s EXCEPT !.game_over = TRUE]
    ELSE s

(* game.c 72-116: everything up to the spawn loop *)
UpdateMove(s, dt) ==
    Accumulate(AwardShot(UpdateAsteroids(UpdateProjectiles(UpdateStarship(s, dt), dt), dt)), dt)

(* the number of times the while loop of game.c 118 runs in this tick *)
SpawnAttempts(s, dt) ==
    IF s = NULL \/ s.game_over THEN 0
    ELSE UpdateMove(s, dt).spawn_accumulator \div F

(* game_state_update with the game_over test of game.c 70 placed after the *)
(* starship stage instead of before it                                     *)
game_state_update_LateGuard(s, dt, draws) ==
    IF s = NULL THEN s
    ELSE IF s.game_over THEN UpdateStarship(s, dt)
    ELSE CheckStarshipCollisions(
           CheckProjectileCollisions(
             CheckAsteroidCollisions(
               SpawnLoop(UpdateMove(s, dt), draws, 1))))

(* game.c 69-200 *)
(* variant: the collisions run before the spawn loop *)
game_state_update_CollideBeforeSpawn(s, dt, draws) ==
    IF s = NULL \/ s.game_over THEN s
    ELSE SpawnLoop(
           CheckStarshipCollisions(
             CheckProjectileCollisions(
               CheckAsteroidCollisions(UpdateMove(s, dt)))), draws, 1)

game_state_update(s, dt, draws) ==
    IF s = NULL \/ s.game_over THEN s
    ELSE CheckStarshipCollisions(
           CheckProjectileCollisions(
             CheckAsteroidCollisions(
               SpawnLoop(UpdateMove(s, dt), draws, 1))))

(* game.c 241-261; keys is the set of directions held down *)
game_state_handle_input(s, keys) ==
    IF s = NULL THEN s
    ELSE LET speed == (STARSHIP_SPEED * F * s.speed_multiplier) \div F
             vy1 == IF "up" \in keys THEN -speed ELSE 0
             vy2 == IF "down" \in keys THEN speed ELSE vy1
             vx1 == IF "left" \in keys THEN -speed ELSE 0
             vx2 == IF "right" \in keys THEN speed ELSE vx1
         IN  [s EXCEPT !.starship.vx = vx2, !.starship.vy = vy2]

(* game.c 443-472 *)
(* variant: the thrust ignores the episode's speed multiplier *)
game_state_apply_rl_action_UnitSpeed(s, action) ==
    IF s = NULL THEN s
    ELSE LET speed == STARSHIP_SPEED * F
         IN  CASE action = 0 -> [s EXCEPT !.starship.vx = 0, !.starship.vy = -speed]
               [] action = 1 -> [s EXCEPT !.starship.vx = 0, !.starship.vy = speed]
               [] action = 2 -> [s EXCEPT !.starship.vx = -speed, !.starship.vy = 0]
               [] action = 3 -> [s EXCEPT !.starship.vx = speed, !.starship.vy = 0]
               [] OTHER      -> [s EXCEPT !.starship.vx = 0, !.starship.vy = 0]

game_state_apply_rl_action(s, action) ==
    IF s = NULL THEN s
    ELSE LET speed == (STARSHIP_SPEED * F * s.speed_multiplier) \div F
         IN  CASE action = 0 -> [s EXCEPT !.starship.vx = 0, !.starship.vy = -speed]
               [] action = 1 -> [s EXCEPT !.starship.vx = 0, !.starship.vy = speed]
               [] action = 2 -> [s EXCEPT !.starship.vx = -speed, !.starship.vy = 0]
               [] action = 3 -> [s EXCEPT !.starship.vx = speed, !.starship.vy = 0]
               [] OTHER      -> [s EXCEPT !.starship.vx = 0, !.starship.vy = 0]

(* the reward of game.c 474-505 with the survive bonus added unconditionally *)
RewardOf_AlwaysSurvive(s) ==
    IF s = NULL THEN 0
    ELSE LET dead  == IF s.game_over THEN -100 * F ELSE 0
             score_diff == s.score - s.prev_score
             bonus == IF score_diff > 0 THEN score_diff * 10 * F ELSE 0
         IN  F + dead + bonus

(* game.c 474-505: the value returned *)
RewardOf(s) ==
    IF s = NULL THEN 0
    ELSE LET alive == IF ~s.game_over THEN F ELSE 0
             dead  == IF s.game_over THEN -100 * F ELSE 0
             score_diff == s.score - s.prev_score
             bonus == IF score_diff > 0 THEN score_diff * 10 * F ELSE 0
         IN  alive + dead + bonus

(* game.c 474-505: the state left behind *)
(* variant: the score the reward was computed for is not recorded *)
game_state_calculate_reward_KeepPrev(s) ==
    IF s = NULL THEN s
    ELSE [s EXCEPT !.last_reward = RewardOf(s),
                   !.cumulative_reward = @ + RewardOf(s)]

game_state_calculate_reward(s) ==
    IF s = NULL THEN s
    ELSE [s EXCEPT !.prev_score = s.score,
                   !.last_reward = RewardOf(s),
                   !.cumulative_reward = @ + RewardOf(s)]

----------------------------------------------------------------------------
(* Inputs of a run.  Each set samples the values the environment can supply. *)

(* --speed=<float>, main.c 36-37 (atof accepts any number) *)
SpeedArgs == {F, 2 * F}

(* SDL_GetTicks differences in milliseconds, main.c 106-107 *)
DeltaTimes == {1000, 2000}

(* rand() / RAND_MAX for the three draws of one spawn_asteroid call *)
RandomDraws == [y : {0, F \div 2}, speed : {0, F}, drift : {F \div 2}]

(* the 4-byte values a client can send, game_bridge.h 20-23: the two     *)
(* special codes, a move, and 5 for the codes that take the branch       *)
(* "case 4: default:" of game.c 467-470 (4, the no-op, and every code    *)
(* out of range)                                                         *)
ActionCodes == {-2, -1, 3, 5}

(* the directions held down when the keyboard is polled, game.c 249-260 *)
KeySets == {{}, {"right"}}

(* the events SDL_AppEvent distinguishes, main.c 81-98 *)
Events == {"QUIT", "ESCAPE", "R", "SPACE"}

(* what recv returns, game_bridge.c 112: error, orderly close, a whole action *)
RecvResults == {-1, 0, 4}

(* what the two send calls of bridge_send_state do, game_bridge.c 134-143 *)
SendResults == {"ok", "length_fails", "payload_fails"}

INVALID_SOCKET == -1
ServerFd == 3
ClientFd == 4

----------------------------------------------------------------------------
(* State *)

VARIABLES
    pc,                \* "init": before SDL_AppInit; "run": callbacks are delivered;
                       \* "quit": SDL_AppQuit is due; "exit": the process is gone
    result,            \* what the last callback returned (SDL_AppResult), or "CRASH"
    rl_mode,           \* main.c 18
    speed_multiplier,  \* main.c 21
    game_state,        \* main.c 14: NULL or the GameState it points to
    bridge,            \* game_bridge.c 35
    closed,            \* the descriptors closesocket was called on, in order
    steps,             \* callbacks delivered so far
    last               \* what the last callback did: its calls and I/O, in order

vars == <<pc, result, rl_mode, speed_multiplier, game_state, bridge, closed, steps, last>>

NoLast ==
    [op |-> "none", event |-> "none", bytes |-> 0, action |-> 0, reward |-> 0,
     calls |-> <<>>, io |-> <<>>, dt |-> 0, draws |-> <<>>, wire |-> <<>>,
     json |-> <<>>]

Init ==
    /\ pc = "init"
    /\ result = "CONTINUE"
    /\ rl_mode = FALSE
    /\ speed_multiplier = F
    /\ game_state = NULL
    /\ bridge = [server_socket |-> 0, client_socket |-> 0, connected |-> FALSE]
    /\ closed = <<>>
    /\ steps = 0
    /\ last = NoLast

----------------------------------------------------------------------------
(* src/agent/utils/game_bridge.c *)

(* game_bridge.c 40-80; how is "socket_fails", "bind_fails", "listen_fails"  *)
(* or "ok".  Gives the bridge, the descriptors closed and the value returned *)
bridge_init(b, how) ==
    CASE how = "socket_fails" ->
           [bridge |-> [b EXCEPT !.server_socket = INVALID_SOCKET], closed |-> <<>>, ret |-> FALSE]
      [] how \in {"bind_fails", "listen_fails"} ->
           [bridge |-> [b EXCEPT !.server_socket = ServerFd], closed |-> <<ServerFd>>, ret |-> FALSE]
      [] OTHER ->
           [bridge |-> [b EXCEPT !.server_socket = ServerFd], closed |-> <<>>, ret |-> TRUE]

(* game_bridge.c 85-100 *)
bridge_accept_connection(b, accepted) ==
    IF ~accepted
    THEN [bridge |-> [b EXCEPT !.client_socket = INVALID_SOCKET], ret |-> FALSE]
    ELSE [bridge |-> [b EXCEPT !.client_socket = ClientFd, !.connected = TRUE], ret |-> TRUE]

(* bridge_receive_action with "bytes < 0" for the "bytes <= 0" of          *)
(* game_bridge.c 114: an orderly shutdown of the peer is taken for data    *)
bridge_receive_action_ZeroIsData(b, bytes, value) ==
    IF ~b.connected
    THEN [bridge |-> b, ret |-> -2, calls |-> <<>>]
    ELSE IF bytes < 0
    THEN [bridge |-> [b EXCEPT !.connected = FALSE], ret |-> -2, calls |-> <<"recv">>]
    ELSE [bridge |-> b, ret |-> value, calls |-> <<"recv">>]

(* game_bridge.c 106-120; bytes is what recv returns and value what the      *)
(* local variable action holds afterwards.  calls lists the transport calls. *)
bridge_receive_action(b, bytes, value) ==
    IF ~b.connected
    THEN [bridge |-> b, ret |-> -2, calls |-> <<>>]
    ELSE IF bytes <= 0
    THEN [bridge |-> [b EXCEPT !.connected = FALSE], ret |-> -2, calls |-> <<"recv">>]
    ELSE [bridge |-> b, ret |-> value, calls |-> <<"recv">>]

(* bridge_send_state without the connected test of game_bridge.c 127 *)
bridge_send_state_NoGuard(b, how) ==
    IF how = "length_fails"
    THEN [bridge |-> [b EXCEPT !.connected = FALSE], ret |-> FALSE, calls |-> <<"send">>]
    ELSE IF how = "payload_fails"
    THEN [bridge |-> [b EXCEPT !.connected = FALSE], ret |-> FALSE,
          calls |-> <<"send", "send">>]
    ELSE [bridge |-> b, ret |-> TRUE, calls |-> <<"send", "send">>]

(* game_bridge.c 126-146 *)
bridge_send_state(b, how) ==
    IF ~b.connected
    THEN [bridge |-> b, ret |-> FALSE, calls |-> <<>>]
    ELSE IF how = "length_fails"
    THEN [bridge |-> [b EXCEPT !.connected = FALSE], ret |-> FALSE, calls |-> <<"send">>]
    ELSE IF how = "payload_fails"
    THEN [bridge |-> [b EXCEPT !.connected = FALSE], ret |-> FALSE,
          calls |-> <<"send", "send">>]
    ELSE [bridge |-> b, ret |-> TRUE, calls |-> <<"send", "send">>]

(* game_bridge.c 193-206 *)
bridge_cleanup(b) ==
    [bridge |-> [b EXCEPT !.connected = FALSE],
     closed |-> (IF b.client_socket # INVALID_SOCKET THEN <<b.client_socket>> ELSE <<>>)
                \o (IF b.server_socket # INVALID_SOCKET THEN <<b.server_socket>> ELSE <<>>)]

----------------------------------------------------------------------------
(* src/src/main.c *)

(* The literal 10 of main.c 142 and game_bridge.c 165, the most asteroids a *)
(* message lists, scaled with the pool (10 of 50 slots in the source).      *)
MaxListed == 4

RECURSIVE CollectAsteroids(_, _, _)
RECURSIVE CollectAsteroids_EverySlot(_, _, _)
(* variant: the scan copies every slot, active or not *)
CollectAsteroids_EverySlot(s, i, data) ==
    IF ~(i <= MAX_ASTEROIDS /\ Len(data) < MaxListed) THEN data
    ELSE CollectAsteroids_EverySlot(s, i + 1,
            Append(data, [x |-> s.asteroids[i].x, y |-> s.asteroids[i].y,
                          vx |-> s.asteroids[i].vx, vy |-> s.asteroids[i].vy,
                          radius |-> s.asteroids[i].size]))

(* main.c 140-153: the scan that fills asteroid_data *)
CollectAsteroids(s, i, data) ==
    IF ~(i <= MAX_ASTEROIDS /\ Len(data) < MaxListed) THEN data
    ELSE IF s.asteroids[i].active
    THEN CollectAsteroids(s, i + 1,
            Append(data, [x |-> s.asteroids[i].x, y |-> s.asteroids[i].y,
                          vx |-> s.asteroids[i].vx, vy |-> s.asteroids[i].vy,
                          radius |-> s.asteroids[i].size]))
    ELSE CollectAsteroids(s, i + 1, data)

(* main.c 155-164 with game_bridge.c 151-181: the fields of the message *)
bridge_build_state_json(s, reward) ==
    [starship  |-> [x |-> s.starship.x, y |-> s.starship.y,
                    vx |-> s.starship.vx, vy |-> s.starship.vy],
     asteroids |-> LET asteroid_data == CollectAsteroids(s, 1, <<>>)
                   IN  SubSeq(asteroid_data, 1, Min(Len(asteroid_data), MaxListed)),
     reward    |-> reward,
     game_over |-> s.game_over]

InitResults == {"socket_fails", "bind_fails", "listen_fails", "ok"}

(* main.c 23-77 *)
SDL_AppInit ==
    /\ pc = "init"
    /\ \E arg_rl \in BOOLEAN, arg_speed \in SpeedArgs, window_ok \in BOOLEAN,
          created \in BOOLEAN, how \in InitResults, accepted \in BOOLEAN :
          LET gs1 == game_state_set_speed_multiplier(game_state_create, arg_speed)
              gs2 == game_state_set_rl_mode(gs1, TRUE)
              bi  == bridge_init(bridge, how)
              ba  == bridge_accept_connection(bi.bridge, accepted)
              out ==
                IF ~window_ok \/ ~created
                THEN [gs |-> NULL, bridge |-> bridge, closed |-> <<>>, result |-> "FAILURE",
                      calls |-> IF window_ok THEN <<"game_state_create">> ELSE <<>>]
                ELSE IF ~arg_rl
                THEN [gs |-> gs1, bridge |-> bridge, closed |-> <<>>, result |-> "CONTINUE",
                      calls |-> <<"game_state_create", "game_state_set_speed_multiplier">>]
                ELSE IF ~bi.ret
                THEN [gs |-> gs2, bridge |-> bi.bridge, closed |-> bi.closed,
                      result |-> "FAILURE",
                      calls |-> <<"game_state_create", "game_state_set_speed_multiplier",
                                  "game_state_set_rl_mode", "bridge_init">>]
                ELSE [gs |-> gs2, bridge |-> ba.bridge, closed |-> <<>>,
                      result |-> IF ba.ret THEN "CONTINUE" ELSE "FAILURE",
                      calls |-> <<"game_state_create", "game_state_set_speed_multiplier",
                                  "game_state_set_rl_mode", "bridge_init",
                                  "bridge_accept_connection">>]
          IN  /\ rl_mode' = arg_rl
              /\ speed_multiplier' = arg_speed
              /\ game_state' = out.gs
              /\ bridge' = out.bridge
              /\ closed' = closed \o out.closed
              /\ result' = out.result
              /\ pc' = IF out.result = "CONTINUE" THEN "run" ELSE "quit"
              /\ last' = [NoLast EXCEPT !.op = "SDL_AppInit", !.calls = out.calls]
    /\ UNCHANGED steps

(* A key the handler ignores (R on a live episode, main.c 90; SPACE on a *)
(* terminal one, main.c 97) changes nothing: such an event is a          *)
(* stuttering step of the program and is not delivered.                  *)
Delivered(s) ==
    {ev \in Events : /\ ev = "R" => s.game_over
                     /\ ev = "SPACE" => ~s.game_over}

(* main.c 79-102 *)
SDL_AppEvent ==
    /\ pc = "run"
    /\ steps < MaxSteps
    /\ \E ev \in Delivered(game_state) :
       \E created \in (IF ev = "R" THEN BOOLEAN ELSE {TRUE}) :
          LET out ==
                IF ev \in {"QUIT", "ESCAPE"}
                THEN [gs |-> game_state, result |-> "SUCCESS", calls |-> <<>>]
                ELSE IF ev = "R" /\ game_state.game_over
                THEN IF created
                     THEN [gs |-> game_state_create, result |-> "CONTINUE",
                           calls |-> <<"game_state_destroy", "game_state_create">>]
                     ELSE [gs |-> NULL, result |-> "FAILURE",
                           calls |-> <<"game_state_destroy", "game_state_create">>]
                ELSE IF ev = "SPACE" /\ ~game_state.game_over
                THEN [gs |-> spawn_projectile(game_state), result |-> "CONTINUE",
                      calls |-> <<"spawn_projectile">>]
                ELSE [gs |-> game_state, result |-> "CONTINUE", calls |-> <<>>]
          IN  /\ game_state' = out.gs
              /\ result' = out.result
              /\ pc' = IF out.result = "CONTINUE" THEN "run" ELSE "quit"
              /\ last' = [NoLast EXCEPT !.op = "SDL_AppEvent", !.event = ev,
                                        !.calls = out.calls]
    /\ steps' = steps + 1
    /\ UNCHANGED <<rl_mode, speed_multiplier, bridge, closed>>

(* the reset of main.c 120-128 without the game_state_set_speed_multiplier *)
(* call of line 125                                                        *)
RLStep_ForgetSpeed(gs, speed, action, dt, created, draws) ==
    LET fresh == IF created THEN game_state_create ELSE NULL
        gs1   == IF action = -1
                 THEN game_state_set_rl_mode(fresh, TRUE)
                 ELSE game_state_update(game_state_apply_rl_action(gs, action), dt, draws)
    IN  [reward |-> RewardOf(gs1), gs |-> game_state_calculate_reward(gs1)]

(* main.c 120-137: what the controller-mode loop does to the episode state  *)
(* for a received action other than -2                                       *)
RLStep(gs, speed, action, dt, created, draws) ==
    LET fresh == IF created THEN game_state_create ELSE NULL
        gs1   == IF action = -1
                 THEN game_state_set_speed_multiplier(game_state_set_rl_mode(fresh, TRUE),
                                                      speed)
                 ELSE game_state_update(game_state_apply_rl_action(gs, action), dt, draws)
    IN  [reward |-> RewardOf(gs1), gs |-> game_state_calculate_reward(gs1)]

RLCalls(action) ==
    IF action = -1
    THEN <<"bridge_receive_action", "game_state_destroy", "game_state_create",
           "game_state_set_rl_mode", "game_state_set_speed_multiplier",
           "game_state_calculate_reward">>
    ELSE <<"bridge_receive_action", "game_state_apply_rl_action",
           "game_state_update", "game_state_calculate_reward">>

(* the controller-mode branch returning SDL_APP_CONTINUE at main.c 117: *)
(* the loop goes on to the next receive after action -2                *)
IterateRL_KeepRunning(bytes, value, step, how) ==
    LET rx     == bridge_receive_action(bridge, bytes, value)
        action == rx.ret
        tx     == bridge_send_state(rx.bridge, how)
        seen   == [NoLast EXCEPT !.op = "SDL_AppIterate", !.bytes = bytes,
                                 !.action = action, !.io = rx.calls]
    IN  IF action = -2
        THEN [gs |-> game_state, bridge |-> rx.bridge, result |-> "CONTINUE",
              last |-> [seen EXCEPT !.calls = <<"bridge_receive_action">>]]
        ELSE IF step.gs = NULL
        THEN [gs |-> NULL, bridge |-> rx.bridge, result |-> "CRASH",
              last |-> [seen EXCEPT !.calls = RLCalls(action)]]
        ELSE [gs |-> step.gs, bridge |-> tx.bridge,
              result |-> IF tx.ret THEN "CONTINUE" ELSE "SUCCESS",
              last |-> [seen EXCEPT
                          !.reward = step.reward,
                          !.calls = RLCalls(action)
                                    \o <<"bridge_build_state_json", "bridge_send_state">>
                                    \o (IF tx.ret THEN <<"game_state_render">> ELSE <<>>),
                          !.io = rx.calls \o tx.calls]]

(* the controller-mode branch leaving the iteration right after a reset: *)
(* action -1 gets no state message                                      *)
IterateRL_SilentReset(bytes, value, step, how) ==
    LET rx     == bridge_receive_action(bridge, bytes, value)
        action == rx.ret
        tx     == bridge_send_state(rx.bridge, how)
        seen   == [NoLast EXCEPT !.op = "SDL_AppIterate", !.bytes = bytes,
                                 !.action = action, !.io = rx.calls]
    IN  IF action = -2
        THEN [gs |-> game_state, bridge |-> rx.bridge, result |-> "SUCCESS",
              last |-> [seen EXCEPT !.calls = <<"bridge_receive_action">>]]
        ELSE IF step.gs = NULL
        THEN [gs |-> NULL, bridge |-> rx.bridge, result |-> "CRASH",
              last |-> [seen EXCEPT !.calls = RLCalls(action)]]
        ELSE IF action = -1
        THEN [gs |-> step.gs, bridge |-> rx.bridge, result |-> "CONTINUE",
              last |-> [seen EXCEPT !.reward = step.reward, !.calls = RLCalls(action)]]
        ELSE [gs |-> step.gs, bridge |-> tx.bridge,
              result |-> IF tx.ret THEN "CONTINUE" ELSE "SUCCESS",
              last |-> [seen EXCEPT
                          !.reward = step.reward,
                          !.calls = RLCalls(action)
                                    \o <<"bridge_build_state_json", "bridge_send_state">>
                                    \o (IF tx.ret THEN <<"game_state_render">> ELSE <<>>),
                          !.io = rx.calls \o tx.calls]]

(* main.c 110-172: the branch taken in controller mode.  step is what    *)
(* lines 120-137 (RLStep) make of the episode for the value received.    *)
IterateRL(bytes, value, step, how) ==
    LET rx     == bridge_receive_action(bridge, bytes, value)
        action == rx.ret
        tx     == bridge_send_state(rx.bridge, how)
        seen   == [NoLast EXCEPT !.op = "SDL_AppIterate", !.bytes = bytes,
                                 !.action = action, !.io = rx.calls]
    IN  IF action = -2
        THEN [gs |-> game_state, bridge |-> rx.bridge, result |-> "SUCCESS",
              last |-> [seen EXCEPT !.calls = <<"bridge_receive_action">>]]
        ELSE IF step.gs = NULL
        THEN \* main.c 144 reads game_state->asteroids through the null pointer
             [gs |-> NULL, bridge |-> rx.bridge, result |-> "CRASH",
              last |-> [seen EXCEPT !.calls = RLCalls(action)]]
        ELSE [gs |-> step.gs, bridge |-> tx.bridge,
              result |-> IF tx.ret THEN "CONTINUE" ELSE "SUCCESS",
              last |-> [seen EXCEPT
                          !.reward = step.reward,
                          !.json = bridge_build_state_json(step.gs, step.reward),
                          !.calls = RLCalls(action)
                                    \o <<"bridge_build_state_json", "bridge_send_state">>
                                    \o (IF tx.ret THEN <<"game_state_render">> ELSE <<>>),
                          !.io = rx.calls \o tx.calls]]

(* main.c 173-180: the branch taken in keyboard mode *)
IterateKeyboard(dt, keys, draws) ==
    [gs |-> game_state_update(game_state_handle_input(game_state, keys), dt, draws),
     bridge |-> bridge, result |-> "CONTINUE",
     last |-> [NoLast EXCEPT !.op = "SDL_AppIterate",
                 !.calls = <<"game_state_handle_input", "game_state_update",
                             "game_state_render">>]]

Finish(o) ==
    \E out \in {o} :
    /\ game_state' = out.gs
    /\ bridge' = out.bridge
    /\ result' = out.result
    /\ last' = out.last
    /\ pc' = CASE out.result = "CONTINUE" -> "run"
               [] out.result = "CRASH" -> "exit"
               [] OTHER -> "quit"

NoDraws == [k \in {} |-> [y |-> 0, speed |-> 0, drift |-> 0]]

(* the episode when lines 120-137 are not reached *)
NoStep == [reward |-> 0, gs |-> game_state]

(* main.c 104-183.  Each input is drawn only where the code reads it. *)
SDL_AppIterate ==
    /\ pc = "run"
    /\ steps < MaxSteps
    /\ IF rl_mode
       THEN \E bytes \in RecvResults :
               IF bytes <= 0
               THEN Finish(IterateRL(bytes, 0, NoStep, "ok"))
               ELSE \E value \in ActionCodes :
                       CASE value = -2 ->
                              Finish(IterateRL(bytes, value, NoStep, "ok"))
                         [] value = -1 ->
                              \E created \in BOOLEAN :
                              \E step \in {RLStep(game_state, speed_multiplier, value,
                                                  0, created, NoDraws)} :
                              \E how \in SendResults :
                                 Finish(IterateRL(bytes, value, step, how))
                         [] OTHER ->
                              \E dt \in DeltaTimes :
                                 LET n == SpawnAttempts(
                                            game_state_apply_rl_action(game_state, value), dt)
                                 IN  \E draws \in [1..n -> RandomDraws] :
                                     \E step \in {RLStep(game_state, speed_multiplier, value,
                                                         dt, TRUE, draws)} :
                                     \E how \in SendResults :
                                        Finish(IterateRL(bytes, value, step, how))
       ELSE \E dt \in DeltaTimes, keys \in KeySets :
               LET n == SpawnAttempts(game_state_handle_input(game_state, keys), dt)
               IN  \E draws \in [1..n -> RandomDraws] :
                      Finish(IterateKeyboard(dt, keys, draws))
    /\ steps' = steps + 1
    /\ UNCHANGED <<rl_mode, speed_multiplier, closed>>

(* main.c 185-194 *)
SDL_AppQuit ==
    /\ pc = "quit"
    /\ pc' = "exit"
    /\ IF rl_mode
       THEN /\ bridge' = bridge_cleanup(bridge).bridge
            /\ closed' = closed \o bridge_cleanup(bridge).closed
       ELSE UNCHANGED <<bridge, closed>>
    /\ game_state' = NULL
    /\ last' = [NoLast EXCEPT !.op = "SDL_AppQuit",
                  !.calls = (IF rl_mode THEN <<"bridge_cleanup">> ELSE <<>>)
                            \o (IF game_state # NULL THEN <<"game_state_destroy">> ELSE <<>>)]
    /\ UNCHANGED <<result, rl_mode, speed_multiplier, steps>>

Next ==
    \/ SDL_AppInit
    \/ SDL_AppEvent
    \/ SDL_AppIterate
    \/ SDL_AppQuit

Spec == Init /\ [][Next]_vars

----------------------------------------------------------------------------
(* The bridge on its own: the calls of game_bridge.h made in any order a    *)
(* caller that follows main.c can make them (bridge_init once, then         *)
(* bridge_accept_connection once, main.c 61-69), receive and send at any    *)
(* time, bridge_cleanup once.  result holds the boolean a call returned.    *)

BridgeInit ==
    /\ pc = "unbound"
    /\ result = "none"
    /\ rl_mode = TRUE
    /\ speed_multiplier = F
    /\ game_state = NULL
    /\ bridge = [server_socket |-> 0, client_socket |-> 0, connected |-> FALSE]
    /\ closed = <<>>
    /\ steps = 0
    /\ last = NoLast

Returned(ret) == IF ret THEN "true" ELSE "false"

SOCKET_ERROR == -1

(* what recv can return at game_bridge.c 112 when asked for sizeof(int) = 4 *)
(* bytes of a stream: also fewer than 4, the rest of action being left as   *)
(* it was (never written before, so any value)                              *)
BridgeRecvResults == RecvResults \cup {2}

(* what a send call can return, game_bridge.c 134 and 140: SOCKET_ERROR, or *)
(* the number of bytes it took, which for a stream socket can be less than  *)
(* asked (interrupted after a part was taken, or a send timeout)            *)
BridgeSendResults == SendResults \cup {"payload_short"}

(* NUL-terminated texts handed to bridge_send_state, as byte values *)
JsonTexts == {<<123, 125, 0>>, <<123, 34, 120, 34, 58, 49, 125, 0>>}

strlen(str) == CHOOSE n \in 0..(Len(str) - 1) : str[n + 1] = 0 /\ \A k \in 1..n : str[k] # 0

(* bytes a send call takes when it takes fewer than asked *)
ShortCount == 1

(* the send calls of game_bridge.c 127-143 for a text and an outcome: what *)
(* each was asked to write (the length as one int of sizeof(int) = 4 bytes, *)
(* then msg_length bytes of the text) and what it returned                  *)
SendCalls(b, json_state, how) ==
    LET msg_length == strlen(json_state)
        first  == [asked |-> 4, int |-> msg_length, bytes |-> <<>>,
                   ret |-> IF how = "length_fails" THEN SOCKET_ERROR ELSE 4]
        count  == IF how = "payload_short" THEN ShortCount ELSE msg_length
        second == [asked |-> msg_length, int |-> 0,
                   bytes |-> IF how = "payload_fails" THEN <<>>
                             ELSE SubSeq(json_state, 1, count),
                   ret |-> IF how = "payload_fails" THEN SOCKET_ERROR ELSE count]
    IN  IF ~b.connected THEN <<>>
        ELSE IF first.ret = SOCKET_ERROR THEN <<first>>
        ELSE <<first, second>>

CallBridgeInit ==
    /\ pc = "unbound"
    /\ \E how \in InitResults :
          LET out == bridge_init(bridge, how)
          IN  /\ bridge' = out.bridge
              /\ closed' = closed \o out.closed
              /\ result' = Returned(out.ret)
              /\ pc' = IF out.ret THEN "listening" ELSE "failed"
              /\ last' = [NoLast EXCEPT !.op = "bridge_init"]
    /\ UNCHANGED <<rl_mode, speed_multiplier, game_state, steps>>

CallBridgeAccept ==
    /\ pc = "listening"
    /\ \E accepted \in BOOLEAN :
          LET out == bridge_accept_connection(bridge, accepted)
          IN  /\ bridge' = out.bridge
              /\ result' = Returned(out.ret)
              /\ pc' = IF out.ret THEN "accepted" ELSE "failed"
              /\ last' = [NoLast EXCEPT !.op = "bridge_accept_connection"]
    /\ UNCHANGED <<rl_mode, speed_multiplier, game_state, closed, steps>>

CallBridgeReceive ==
    /\ steps < MaxSteps
    /\ \E bytes \in BridgeRecvResults, value \in ActionCodes :
          LET out == bridge_receive_action(bridge, bytes, value)
          IN  /\ bridge' = out.bridge
              /\ result' = "none"
              /\ last' = [NoLast EXCEPT !.op = "bridge_receive_action",
                            !.bytes = IF out.calls = <<>> THEN 0 ELSE bytes,
                            !.action = out.ret, !.io = out.calls]
    /\ steps' = steps + 1
    /\ UNCHANGED <<pc, rl_mode, speed_multiplier, game_state, closed>>

CallBridgeSend ==
    /\ steps < MaxSteps
    /\ \E how \in BridgeSendResults, json_state \in JsonTexts :
          LET out == bridge_send_state(bridge, how)
          IN  /\ bridge' = out.bridge
              /\ result' = Returned(out.ret)
              /\ last' = [NoLast EXCEPT !.op = "bridge_send_state", !.io = out.calls,
                                        !.wire = SendCalls(bridge, json_state, how)]
    /\ steps' = steps + 1
    /\ UNCHANGED <<pc, rl_mode, speed_multiplier, game_state, closed>>

CallBridgeCleanup ==
    /\ pc # "cleaned"
    /\ bridge' = bridge_cleanup(bridge).bridge
    /\ closed' = closed \o bridge_cleanup(bridge).closed
    /\ result' = "none"
    /\ pc' = "cleaned"
    /\ last' = [NoLast EXCEPT !.op = "bridge_cleanup"]
    /\ UNCHANGED <<rl_mode, speed_multiplier, game_state, steps>>

BridgeNext ==
    \/ CallBridgeInit
    \/ CallBridgeAccept
    \/ CallBridgeReceive
    \/ CallBridgeSend
    \/ CallBridgeCleanup

BridgeSpec == BridgeInit /\ [][BridgeNext]_vars

----------------------------------------------------------------------------
(* An episode in progress.  A controller-mode run (SDL_AppInit done, the    *)
(* client accepted) in three phases.  "warmup": the controller sends the    *)
(* no-op action and every frame stalls for WarmupDt, so that each iteration *)
(* retires the asteroids of the one before and refills the pool, until the  *)
(* score is in the range the run is studied from.  "armed": the fire key is *)
(* pressed a number of times.  "run": up to MaxCalls calls, in any order,   *)
(* of the loop body, spawn_projectile and game_state_calculate_reward.      *)

(* Number of calls explored after the warm-up. *)
MaxCalls == 3

(* main.c 33-57: the episode SDL_AppInit hands to the loop with --rl-mode *)
Started ==
    game_state_set_rl_mode(game_state_set_speed_multiplier(game_state_create, F), TRUE)

(* the same with --speed 2.0 *)
StartedFast ==
    game_state_set_rl_mode(game_state_set_speed_multiplier(game_state_create, 2 * F), TRUE)

(* the same with --speed=0, or with a value atof cannot read (main.c 37) *)
StartedStill ==
    game_state_set_rl_mode(game_state_set_speed_multiplier(game_state_create, 0), TRUE)

(* a stalled frame: SDL_GetTicks moved on by 30 s between two iterations *)
WarmupDt == 30000

WarmupDraw == [y |-> F \div 2, speed |-> F, drift |-> F \div 2]

(* the score at which the warm-up ends: four bonus shots granted and the *)
(* next multiple of 50 within reach of one hit                           *)
WarmupGoal == 245

(* codes that reach the switch of game.c 449-471, -3 and 5 for its default *)
(* branch: the controller opens with any of them and goes on with the no-op *)
EpisodeActionCodes == {-3, 0, 1, 2, 3, 4, 5}
LaterActionCodes == {4}

(* SDL_GetTicks differences in milliseconds, main.c 106-107 *)
EpisodeDeltaTimes == {870, 1700}

(* rand() / RAND_MAX for the three draws of a spawn_asteroid call: in the *)
(* craft's lane and fast, or at the top of the arena and slow            *)
EpisodeRandomDraws == {WarmupDraw, [y |-> 0, speed |-> 0, drift |-> F \div 2]}

(* the rand() results of a tick: drawn when spawn_asteroid gets to line 373, *)
(* that is when the loop of game.c 118 runs and a slot is free               *)
EpisodeDraws(s, dt) ==
    LET n == SpawnAttempts(s, dt)
    IN  IF n > 0 /\ UpdateMove(s, dt).asteroid_count < MAX_ASTEROIDS
        THEN {[k \in 1..n |-> d] : d \in EpisodeRandomDraws}
        ELSE {[k \in 1..n |-> WarmupDraw]}

(* an episode at speed 1.0 that is first played to the warm-up goal, or a *)
(* new episode at speed 2.0 or 0                                          *)
EpisodeInit ==
    /\ \/ pc = "warmup" /\ speed_multiplier = F /\ game_state = Started
       \/ pc = "armed" /\ speed_multiplier = 2 * F /\ game_state = StartedFast
       \/ pc = "armed" /\ speed_multiplier = 0 /\ game_state = StartedStill
    /\ result = "CONTINUE"
    /\ rl_mode = TRUE
    /\ bridge = [server_socket |-> ServerFd, client_socket |-> ClientFd, connected |-> TRUE]
    /\ closed = <<>>
    /\ steps = 0
    /\ last = NoLast

(* the calls after the warm-up can be made *)
Ready ==
    \/ pc = "warmup" /\ game_state.score >= WarmupGoal
    \/ pc = "armed"
    \/ pc = "run" /\ steps < MaxCalls

(* main.c 110-172 with a healthy transport: one iteration for the value *)
(* received, the frame time and the rand() results                      *)
Iterated(value, dt, draws) ==
    LET step == RLStep(game_state, speed_multiplier, value, dt, TRUE, draws)
        o    == IterateRL(4, value, step, "ok")
    IN  [o EXCEPT !.last.dt = dt, !.last.draws = draws]

EpisodeWarmup ==
    /\ pc = "warmup"
    /\ game_state.score < WarmupGoal
    /\ \E draws \in {[k \in 1..SpawnAttempts(game_state_apply_rl_action(game_state, 4),
                                               WarmupDt) |-> WarmupDraw]} :
       \E o \in {Iterated(4, WarmupDt, draws)} :
          /\ game_state' = o.gs
          /\ bridge' = o.bridge
          /\ result' = o.result
          /\ last' = o.last
    /\ UNCHANGED <<pc, rl_mode, speed_multiplier, closed, steps>>

EpisodeIterate ==
    /\ Ready
    /\ \E value \in (IF pc = "run" THEN LaterActionCodes ELSE EpisodeActionCodes),
          dt \in EpisodeDeltaTimes :
       \E draws \in EpisodeDraws(game_state_apply_rl_action(game_state, value), dt) :
       \E o \in {Iterated(value, dt, draws)} :
          Finish(o)
    /\ steps' = steps + 1
    /\ UNCHANGED <<rl_mode, speed_multiplier, closed>>

(* game.c 412-427, as the fire key calls it at main.c 96-98 *)
EpisodeFire ==
    /\ Ready
    /\ game_state' = spawn_projectile(game_state)
    /\ last' = [NoLast EXCEPT
                  !.op = "spawn_projectile",
                  !.calls = IF spawn_projectile(game_state).projectiles = game_state.projectiles
                            THEN <<"spawn_projectile">>
                            ELSE <<"spawn_projectile", "projectile_init">>]
    /\ pc' = IF pc = "run" THEN "run" ELSE "armed"
    /\ steps' = IF pc = "run" THEN steps + 1 ELSE steps
    /\ UNCHANGED <<result, rl_mode, speed_multiplier, bridge, closed>>

(* game.c 474-505 *)
EpisodeReward ==
    /\ Ready
    /\ game_state' = game_state_calculate_reward(game_state)
    /\ last' = [NoLast EXCEPT !.op = "game_state_calculate_reward",
                  !.reward = RewardOf(game_state),
                  !.calls = <<"game_state_calculate_reward">>]
    /\ pc' = "run"
    /\ steps' = steps + 1
    /\ UNCHANGED <<result, rl_mode, speed_multiplier, bridge, closed>>

EpisodeNext ==
    \/ EpisodeWarmup
    \/ EpisodeIterate
    \/ EpisodeFire
    \/ EpisodeReward

EpisodeSpec == EpisodeInit /\ [][EpisodeNext]_vars

----------------------------------------------------------------------------
(* The asteroid-to-asteroid response of game.c 123-169 on one pair: an      *)
(* episode with two overlapping asteroids and a tick of no duration, which  *)
(* moves nothing, spawns nothing and runs the collision passes.             *)

(* velocities asteroid_init gives at base speed: 50 or 200 to the left, a  *)
(* drift of -50, 0 or 50                                                   *)
PairVelocities == {[vx |-> -vx * F, vy |-> vy * F] : vx \in {50, 200}, vy \in {-50, 0, 50}}

(* where the second asteroid stands relative to the first: centres 30 apart *)
(* on a slanted line, 20 or 30 apart on an axis, or at the same place       *)
PairOffsets ==
    {[x |-> 24 * F, y |-> 18 * F], [x |-> -24 * F, y |-> 18 * F], [x |-> 20 * F, y |-> 0],
     [x |-> 0, y |-> -30 * F], [x |-> 0, y |-> 0]}

PairAsteroid(x, y, v) ==
    [x |-> x, y |-> y, vx |-> v.vx, vy |-> v.vy, w |-> ASTEROID_SIZE * F,
     h |-> ASTEROID_SIZE * F, active |-> TRUE, size |-> ASTEROID_SIZE * F]

PairInit ==
    /\ pc = "pair"
    /\ result = "CONTINUE"
    /\ rl_mode = FALSE
    /\ speed_multiplier = F
    /\ \E v1 \in PairVelocities, v2 \in PairVelocities, off \in PairOffsets :
          game_state =
             [game_state_create EXCEPT
                !.asteroids[1] = PairAsteroid(500 * F, 300 * F, v1),
                !.asteroids[2] = PairAsteroid(500 * F + off.x, 300 * F + off.y, v2),
                !.asteroid_count = 2]
    /\ bridge = [server_socket |-> 0, client_socket |-> 0, connected |-> FALSE]
    /\ closed = <<>>
    /\ steps = 0
    /\ last = NoLast

(* game.c 69-200 with delta_time = 0 *)
PairTick ==
    /\ pc = "pair"
    /\ game_state' = game_state_update(game_state, 0, NoDraws)
    /\ pc' = "done"
    /\ steps' = steps + 1
    /\ last' = [NoLast EXCEPT !.op = "game_state_update",
                              !.calls = <<"game_state_update">>]
    /\ UNCHANGED <<result, rl_mode, speed_multiplier, bridge, closed>>

PairNext == PairTick

PairSpec == PairInit /\ [][PairNext]_vars

----------------------------------------------------------------------------
(* Properties *)

(* the callback that has just run called the function of this name *)
Called(name) == \E k \in 1..Len(last.calls) : last.calls[k] = name

(* the callback that leads to the next state calls the function of this name *)
CallsNext(name) == \E k \in 1..Len(last'.calls) : last'.calls[k] = name

ActiveAsteroids(s) == {i \in AsteroidSlots : s.asteroids[i].active}

ActiveProjectiles(s) == {i \in ProjectileSlots : s.projectiles[i].active}

(* the fields of the episode that game_state_update writes *)
EpisodeView(s) ==
    [x |-> s.starship.x, y |-> s.starship.y, asteroids |-> s.asteroids,
     projectiles |-> s.projectiles, asteroid_count |-> s.asteroid_count,
     projectile_count |-> s.projectile_count, score |-> s.score,
     available_shots |-> s.available_shots, last_shot_score |-> s.last_shot_score,
     spawn_accumulator |-> s.spawn_accumulator, delta_time |-> s.delta_time,
     game_over |-> s.game_over]

(* C1: in every reachable state asteroid_count is the number of asteroid    *)
(* slots whose active flag is set and projectile_count is the number of     *)
(* projectile slots whose active flag is set.                               *)
C1_CountsMatchActiveSlots ==
    game_state # NULL =>
        /\ game_state.asteroid_count = Cardinality(ActiveAsteroids(game_state))
        /\ game_state.projectile_count = Cardinality(ActiveProjectiles(game_state))

(* a projectile has been fired and has destroyed an asteroid: both slots    *)
(* were taken and then retired                                              *)
C1_Witness ==
    /\ game_state # NULL
    /\ game_state.score >= 10
    /\ game_state.available_shots < 3
    /\ game_state.projectile_count = 0

(* C2: once game_over is set it stays set until the episode is replaced by  *)
(* a reset, and a game_state_update call on a terminal episode changes no   *)
(* field: the state after the callback is the one its other calls produce.  *)
C2_TerminalIsSticky ==
    [][(game_state # NULL /\ game_state.game_over) =>
          /\ (game_state' # NULL /\ ~CallsNext("game_state_create"))
                => game_state'.game_over
          /\ CallsNext("game_state_update") =>
                /\ EpisodeView(game_state') = EpisodeView(game_state)
                /\ IF rl_mode
                   THEN game_state' = game_state_calculate_reward(
                                        game_state_apply_rl_action(game_state, last'.action))
                   ELSE \E keys \in KeySets :
                           game_state' = game_state_handle_input(game_state, keys)]_vars

(* game_state_update has just been called on an episode that was terminal   *)
(* before the call                                                          *)
C2_Witness ==
    /\ game_state # NULL
    /\ game_state.game_over
    /\ Called("game_state_update")
    /\ rl_mode
    /\ game_state.cumulative_reward <= -200 * F + 2 * F

(* C3: the reward computed for a tick that starts from a non-terminal       *)
(* episode is (+1 if not terminal after the tick) + (-100 if the tick made  *)
(* it terminal) + 10 x max(0, score - previously recorded score).           *)
C3_RewardOfTick ==
    [][(/\ game_state # NULL
        /\ ~game_state.game_over
        /\ rl_mode
        /\ CallsNext("game_state_update")) =>
          /\ last'.reward =
               (IF game_state'.game_over THEN -100 * F ELSE F)
               + 10 * F * Max(0, game_state'.score - game_state.prev_score)
          /\ game_state'.last_reward = last'.reward]_vars

(* the score went from 0 to 10 in a tick that stayed non-terminal: 101 *)
C3_Witness ==
    /\ game_state # NULL
    /\ ~game_state.game_over
    /\ game_state.score = 10
    /\ Called("game_state_update")
    /\ last.reward = 101 * F

(* C4: in controller mode the reward of a loop iteration that starts from   *)
(* an episode that is already terminal (and is not a reset) does not        *)
(* contain the -100 term.                                                   *)
C4_PenaltyOnlyOnce ==
    [][(/\ game_state # NULL
        /\ game_state.game_over
        /\ rl_mode
        /\ CallsNext("game_state_update")) =>
          /\ last'.reward >= 0
          /\ game_state'.cumulative_reward >= game_state.cumulative_reward]_vars

CountCalls(name) == Cardinality({k \in 1..Len(last.calls) : last.calls[k] = name})

(* the callback that has just run is an iteration of the controller-mode loop *)
RLIterated == last.op = "SDL_AppIterate" /\ rl_mode

(* C5: when bridge_receive_action is called on a connected bridge and recv  *)
(* reports an error or a zero byte count, the bridge is left with           *)
(* connected = false and the call returns -2.                               *)
C5_ReceiveFailureDisconnects ==
    [][(/\ bridge.connected
        /\ CallsNext("bridge_receive_action")
        /\ last'.bytes <= 0) =>
          /\ ~bridge'.connected
          /\ last'.action = -2
          /\ last'.io = <<"recv">>]_vars

(* recv has just reported an orderly shutdown or an error on a bridge that  *)
(* was connected                                                            *)
C5_Witness ==
    /\ RLIterated
    /\ last.bytes <= 0
    /\ last.io = <<"recv">>
    /\ last.action = -2
    /\ ~bridge.connected
    /\ bridge.client_socket = ClientFd

(* C6: when the controller-mode loop receives -2 the run ends in that same  *)
(* iteration: nothing but the receive is called (no action applied, no      *)
(* tick, no reward, no message), the episode is untouched, the callback     *)
(* returns success and no later iteration runs.                             *)
C6_LostConnectionEndsRun ==
    [][/\ (rl_mode /\ last'.op = "SDL_AppIterate" /\ last'.action = -2) =>
             /\ last'.calls = <<"bridge_receive_action">>
             /\ Len(last'.io) <= 1
             /\ game_state' = game_state
             /\ result' = "SUCCESS"
             /\ pc' = "quit"
       /\ (pc # "run") => last'.op \notin {"SDL_AppIterate", "SDL_AppEvent"}]_vars

(* a zero-byte receive has surfaced as -2 and the loop has stopped *)
C6_Witness ==
    /\ RLIterated
    /\ last.action = -2
    /\ last.bytes = 0
    /\ pc = "quit"

(* C7: Disconnected is terminal.  Once connected is false after the accept  *)
(* it never becomes true again; a receive on an unconnected bridge returns  *)
(* -2 and a send returns false, both without a transport call and without   *)
(* changing the bridge; connected becomes true only by the one accept, and  *)
(* the client socket, once accepted, is never replaced.                     *)
C7_DisconnectedIsTerminal ==
    [][/\ (~bridge.connected /\ pc \notin {"unbound", "listening"}) => ~bridge'.connected
       /\ (~bridge.connected /\ last'.op = "bridge_receive_action") =>
             /\ last'.action = -2
             /\ last'.io = <<>>
             /\ bridge' = bridge
       /\ (~bridge.connected /\ last'.op = "bridge_send_state") =>
             /\ result' = "false"
             /\ last'.io = <<>>
             /\ bridge' = bridge
       /\ (bridge'.connected /\ ~bridge.connected) =>
             /\ last'.op = "bridge_accept_connection"
             /\ pc = "listening"
       /\ (bridge'.client_socket # bridge.client_socket) =>
             /\ last'.op = "bridge_accept_connection"
             /\ bridge.client_socket = 0]_vars

(* a send has just been tried on a bridge that had lost its client: it      *)
(* failed without a transport call                                          *)
C7_Witness ==
    /\ last.op = "bridge_send_state"
    /\ last.io = <<>>
    /\ result = "false"
    /\ ~bridge.connected
    /\ bridge.client_socket = ClientFd
    /\ pc = "accepted"

(* C8: request/response alternation in controller mode.  An iteration       *)
(* starts with exactly one receive; an action other than -2 is answered by  *)
(* one bridge_send_state call, and the loop reaches its next receive only   *)
(* after the whole message (length, payload) went out; -2 gets no message;  *)
(* nothing is sent outside an iteration.                                    *)
C8_RequestResponse ==
    /\ ~RLIterated => (last.io = <<>> /\ ~Called("bridge_send_state"))
    /\ RLIterated =>
          /\ last.calls[1] = "bridge_receive_action"
          /\ CountCalls("bridge_receive_action") = 1
          /\ last.io[1] = "recv"
          /\ \A k \in 2..Len(last.io) : last.io[k] = "send"
          /\ CountCalls("bridge_send_state") <= 1
          /\ last.action = -2 => (last.io = <<"recv">> /\ ~Called("bridge_send_state"))
          /\ (last.action # -2 /\ result # "CRASH") => CountCalls("bridge_send_state") = 1
          /\ (last.action # -2 /\ pc = "run") => last.io = <<"recv", "send", "send">>

(* a reset request has been answered and the loop is about to receive again *)
C8_Witness ==
    /\ RLIterated
    /\ last.action = -1
    /\ last.io = <<"recv", "send", "send">>
    /\ CountCalls("bridge_send_state") = 1
    /\ pc = "run"

(* C9: an iteration that receives -1 and completes the reset leaves a fresh *)
(* episode (score 0, 3 shots, empty pools, counts 0, not terminal, spawn    *)
(* accumulator 0, starship at its start with zero velocity), while the      *)
(* global speed multiplier and controller-mode flag are unchanged and the   *)
(* new episode carries them.                                                *)
C9_ResetGivesFreshEpisode ==
    [][(/\ rl_mode
        /\ last'.op = "SDL_AppIterate"
        /\ last'.action = -1
        /\ result' # "CRASH") =>
          /\ game_state' # NULL
          /\ EpisodeView(game_state') = EpisodeView(game_state_create)
          /\ game_state'.starship = starship_init
          /\ speed_multiplier' = speed_multiplier
          /\ rl_mode' = rl_mode
          /\ game_state'.speed_multiplier = speed_multiplier
          /\ game_state'.rl_mode = rl_mode]_vars

(* a reset has just been done in a run started with --speed=2 after the     *)
(* episode had got an asteroid and fired a shot                             *)
C9_Witness ==
    /\ RLIterated
    /\ last.action = -1
    /\ game_state # NULL
    /\ game_state.speed_multiplier = 2 * F
    /\ game_state.available_shots = 3
    /\ steps >= 3

(* C10: available_shots is never negative; a fire with no ammunition left   *)
(* creates no projectile and leaves available_shots alone; a fire that      *)
(* creates a projectile decrements available_shots by exactly 1.            *)
C10_AmmoNeverNegative ==
    /\ [](game_state # NULL => game_state.available_shots >= 0)
    /\ [][(game_state # NULL /\ CallsNext("spawn_projectile")) =>
            /\ game_state.available_shots <= 0 =>
                  /\ game_state'.projectiles = game_state.projectiles
                  /\ game_state'.projectile_count = game_state.projectile_count
                  /\ game_state'.available_shots = game_state.available_shots
            /\ game_state'.projectiles # game_state.projectiles =>
                  /\ game_state'.projectile_count = game_state.projectile_count + 1
                  /\ game_state'.available_shots = game_state.available_shots - 1]_vars

(* the fire key was pressed for the fourth time on an episode that started  *)
(* with three shots: nothing was fired                                      *)
C10_Witness ==
    /\ game_state # NULL
    /\ last.event = "SPACE"
    /\ Called("spawn_projectile")
    /\ game_state.available_shots = 0
    /\ game_state.projectile_count = 3
    /\ steps > 3

(* the step to the next state is a tick of an episode that is not terminal *)
TickNext ==
    /\ game_state # NULL
    /\ ~game_state.game_over
    /\ CallsNext("game_state_update")

(* C11: in the tick in which the score crosses a multiple of 50             *)
(* available_shots increases by exactly 1 in that same tick, and a tick in  *)
(* which the score crosses no multiple of 50 does not increase it.          *)
C11_BonusInCrossingTick ==
    [][TickNext =>
          game_state'.available_shots - game_state.available_shots =
             (IF game_state'.score \div 50 > game_state.score \div 50 THEN 1 ELSE 0)]_vars

(* the episode as the tick to the next state finds it: the action of    *)
(* main.c 130 applied                                                     *)
Applied == game_state_apply_rl_action(game_state, last'.action)

(* the episode at the bonus check of the tick to the next state, game.c 103 *)
AtBonusCheck ==
    UpdateAsteroids(UpdateProjectiles(UpdateStarship(Applied, last'.dt), last'.dt), last'.dt)

(* C12: one shot is granted for every 50 score points.  The ammunition      *)
(* granted up to a bonus check is floor(score / 50) at that check, so the   *)
(* check of a tick adds floor(score / 50) minus the floor recorded at the   *)
(* previous bonus, also when that is more than 1.                           *)
C12_OneShotPerFiftyPoints ==
    [][TickNext =>
          game_state'.available_shots - game_state.available_shots =
             AtBonusCheck.score \div 50 - game_state.last_shot_score \div 50]_vars

(* the pools, counts, score and ammunition of an episode *)
PoolView(s) ==
    [asteroids |-> s.asteroids, projectiles |-> s.projectiles,
     asteroid_count |-> s.asteroid_count, projectile_count |-> s.projectile_count,
     score |-> s.score, available_shots |-> s.available_shots]

(* the episode when the tick to the next state enters the spawn loop, *)
(* game.c 118                                                         *)
AtSpawnLoop == UpdateMove(Applied, last'.dt)

(* C13: a spawn_projectile call made while every projectile slot is active  *)
(* changes nothing, and the spawn_asteroid calls of a tick that enters its  *)
(* spawn loop with every asteroid slot active change no slot, count, score  *)
(* or ammunition value; neither ends the run.                               *)
C13_FullPoolIsNoOp ==
    [][/\ (/\ game_state # NULL
            /\ CallsNext("spawn_projectile")
            /\ Cardinality(ActiveProjectiles(game_state)) = MAX_PROJECTILES) =>
              /\ game_state' = game_state
              /\ pc' \notin {"quit", "exit"}
       /\ TickNext =>
              \A full \in {AtSpawnLoop} :
                 (/\ Cardinality(ActiveAsteroids(full)) = MAX_ASTEROIDS
                  /\ full.spawn_accumulator >= F) =>
                    /\ PoolView(SpawnLoop(full, last'.draws, 1)) = PoolView(full)
                    /\ game_state'.asteroid_count <= MAX_ASTEROIDS
                    /\ result' = "CONTINUE"]_vars

(* the fire key was pressed with every projectile slot active and a shot    *)
(* left: no projectile was initialised                                      *)
C13_Witness ==
    /\ last.calls = <<"spawn_projectile">>
    /\ game_state.projectile_count = MAX_PROJECTILES
    /\ game_state.available_shots > 0
    /\ game_state.asteroid_count = MAX_ASTEROIDS

(* the episode when the tick to the next state enters the                 *)
(* projectile-asteroid stage, game.c 172                                  *)
AtProjectileStage ==
    CheckAsteroidCollisions(SpawnLoop(AtSpawnLoop, last'.draws, 1))

(* C14: in the projectile-asteroid stage of a tick the projectiles retired  *)
(* and the asteroids destroyed are equal in number and the score rises by   *)
(* 10 for each; every retired projectile overlapped a destroyed asteroid    *)
(* and every destroyed asteroid a retired projectile; a retired projectile  *)
(* that also overlapped a surviving asteroid took one of lower index; no    *)
(* surviving projectile overlaps a surviving asteroid; survivors are left   *)
(* as they were.                                                            *)
C14_OneObstaclePerProjectile ==
    [][TickNext =>
          \A pre \in {AtProjectileStage} :
          LET retired   == {i \in ProjectileSlots :
                              pre.projectiles[i].active /\ ~game_state'.projectiles[i].active}
              destroyed == {j \in AsteroidSlots :
                              pre.asteroids[j].active /\ ~game_state'.asteroids[j].active}
              Hit(i, j) == physics_entities_collide(pre.projectiles[i], pre.asteroids[j])
          IN  /\ Cardinality(retired) = Cardinality(destroyed)
              /\ game_state'.score = pre.score + 10 * Cardinality(retired)
              /\ game_state'.projectile_count = pre.projectile_count - Cardinality(retired)
              /\ game_state'.asteroid_count = pre.asteroid_count - Cardinality(destroyed)
              /\ \A i \in retired : \E j \in destroyed : Hit(i, j)
              /\ \A j \in destroyed : \E i \in retired : Hit(i, j)
              /\ \A i \in retired : \A j \in AsteroidSlots \ destroyed :
                    Hit(i, j) => \E k \in destroyed : k < j /\ Hit(i, k)
              /\ \A i \in ProjectileSlots \ retired : \A j \in AsteroidSlots \ destroyed :
                    ~Hit(i, j)
              /\ \A i \in ProjectileSlots \ retired :
                    game_state'.projectiles[i] = pre.projectiles[i]
              /\ \A j \in AsteroidSlots \ destroyed :
                    game_state'.asteroids[j] = pre.asteroids[j]]_vars

(* two projectiles have each destroyed one of six asteroids they both       *)
(* overlapped: 20 points in one tick, four asteroids left                   *)
C14_Witness ==
    /\ Called("game_state_update")
    /\ last.reward = 201 * F
    /\ game_state.projectile_count = 0
    /\ game_state.asteroid_count = MAX_ASTEROIDS - 2

(* two rectangles overlap: each starts before the other ends, on both axes *)
RectsOverlap(a, b) ==
    /\ a.x < b.x + b.w
    /\ b.x < a.x + a.w
    /\ a.y < b.y + b.h
    /\ b.y < a.y + a.h

(* C15: a tick sets game_over if and only if, at its starship stage, the    *)
(* starship's rectangle overlaps an asteroid that is still active; the      *)
(* stage changes no asteroid (active flags and asteroid_count as they were) *)
(* and the overlap is there in the state the tick leaves.                   *)
C15_TerminalIffCraftOverlap ==
    [][TickNext =>
          \A shot \in {AtProjectileStage} :
          \A pre \in {CheckProjectileCollisions(shot)} :
             /\ game_state'.game_over <=>
                   \E j \in AsteroidSlots :
                      pre.asteroids[j].active /\ RectsOverlap(pre.starship, pre.asteroids[j])
             /\ game_state'.game_over <=>
                   \E j \in ActiveAsteroids(game_state') :
                      RectsOverlap(game_state'.starship, game_state'.asteroids[j])
             /\ game_state'.asteroids = pre.asteroids
             /\ game_state'.asteroid_count = pre.asteroid_count
             /\ game_state'.starship = pre.starship]_vars

(* a tick has ended the episode and the asteroid the starship ran into is   *)
(* still active                                                             *)
C15_Witness ==
    /\ Called("game_state_update")
    /\ game_state.game_over
    /\ last.reward = -100 * F
    /\ game_state.asteroid_count = MAX_ASTEROIDS
    /\ \E j \in ActiveAsteroids(game_state) :
          RectsOverlap(game_state.starship, game_state.asteroids[j])

(* C16: within an episode the score is never negative and no tick, fire or  *)
(* reward computation lowers it; only a step that creates a new episode     *)
(* changes it otherwise, and the new episode starts at 0.                   *)
C16_ScoreNeverDrops ==
    [][(game_state # NULL /\ game_state' # NULL) =>
          /\ game_state'.score >= 0
          /\ ~CallsNext("game_state_create") => game_state'.score >= game_state.score
          /\ (CallsNext("game_state_create") /\ ~CallsNext("game_state_update")) =>
                game_state'.score = 0]_vars

(* a tick has retired an asteroid at the left edge and the score has grown *)
C16_Witness ==
    /\ game_state # NULL
    /\ Called("game_state_update")
    /\ ~Called("game_state_create")
    /\ game_state.score > 0

(* C17: a tick that starts with the episode running integrates, retires     *)
(* what left the arena, runs the spawn loop and only then the collisions,   *)
(* and the reward is computed from the episode the whole tick leaves.  So   *)
(* the entities that survive stand where this tick's integration put them,  *)
(* the points of the tick are those of the retirements plus 10 for every    *)
(* projectile lost after the retirements, no projectile and asteroid that   *)
(* are both active overlap afterwards (the asteroids spawned in this tick   *)
(* included), the episode has ended exactly when the starship overlaps an   *)
(* active asteroid, and the reward is that of the scores before and after   *)
(* the tick and of game_over after it.                                      *)
C17_StagesInOrder ==
    [][TickNext =>
          \A moved \in {UpdateMove(Applied, last'.dt)} :
             /\ game_state'.starship = moved.starship
             /\ \A i \in ActiveProjectiles(game_state') :
                   game_state'.projectiles[i] = moved.projectiles[i]
             /\ \A j \in ActiveAsteroids(game_state') :
                   moved.asteroids[j].active =>
                      /\ game_state'.asteroids[j].x = moved.asteroids[j].x
                      /\ game_state'.asteroids[j].y = moved.asteroids[j].y
             /\ game_state'.score =
                   moved.score + 10 * (moved.projectile_count - game_state'.projectile_count)
             /\ \A i \in ActiveProjectiles(game_state') :
                \A j \in ActiveAsteroids(game_state') :
                   ~physics_entities_collide(game_state'.projectiles[i],
                                             game_state'.asteroids[j])
             /\ game_state'.game_over <=>
                   \E j \in ActiveAsteroids(game_state') :
                      physics_entities_collide(game_state'.starship,
                                               game_state'.asteroids[j])
             /\ last'.reward =
                   (IF game_state'.game_over THEN -100 * F ELSE F)
                   + 10 * F * (game_state'.score - game_state.prev_score)
             /\ game_state'.last_reward = last'.reward
             /\ \E a, b \in 1..Len(last'.calls) :
                   /\ a < b
                   /\ last'.calls[a] = "game_state_update"
                   /\ last'.calls[b] = "game_state_calculate_reward"]_vars

(* a tick of 1.7 s has retired every asteroid of the pool at the left edge *)
(* (one point each), spawned new ones, and its only projectile has         *)
(* destroyed one of the asteroids spawned in this same tick (10 points)    *)
C17_Witness ==
    /\ Called("game_state_update")
    /\ ~game_state.game_over
    /\ last.dt = 1700
    /\ Len(last.draws) > 0
    /\ last.reward = F + 10 * F * (MAX_ASTEROIDS + 10)
    /\ game_state.projectile_count = 0
    /\ game_state.asteroid_count > 0

(* C18: every tick of the loop ends with the reward computation (main.c    *)
(* 137), so a further call of it is a second call with no tick in between:  *)
(* its score term is zero (the reward is the survival point or the          *)
(* collision penalty alone), last_reward is overwritten with it and         *)
(* cumulative_reward grows by it.                                           *)
C18_SecondRewardHasNoDelta ==
    [][(last'.op = "game_state_calculate_reward"
        /\ (Called("game_state_calculate_reward") \/ last.op = "spawn_projectile")) =>
          /\ last'.reward = (IF game_state.game_over THEN -100 * F ELSE F)
          /\ game_state'.last_reward = last'.reward
          /\ game_state'.cumulative_reward = game_state.cumulative_reward + last'.reward
          /\ game_state'.prev_score = game_state.score
          /\ game_state'.score = game_state.score]_vars

(* after a tick in which projectiles earned points (its reward had a score *)
(* term), the reward was computed again and came to the survival point     *)
C18_Witness ==
    /\ last.op = "game_state_calculate_reward"
    /\ last.reward = F
    /\ game_state.last_reward = F
    /\ game_state.score >= WarmupGoal + 10
    /\ game_state.prev_score = game_state.score

(* the velocity the switch of game.c 453-471 gives the starship *)
ActionVelocity(action, speed) ==
    IF action = 0 THEN [vx |-> 0, vy |-> -speed]
    ELSE IF action = 1 THEN [vx |-> 0, vy |-> speed]
    ELSE IF action = 2 THEN [vx |-> -speed, vy |-> 0]
    ELSE IF action = 3 THEN [vx |-> speed, vy |-> 0]
    ELSE [vx |-> 0, vy |-> 0]

(* C19: an iteration that receives a code other than -1 and -2 leaves the   *)
(* starship with the velocity of the table 0 up, 1 down, 2 left, 3 right at *)
(* speed 300 x the episode's speed multiplier, and 4 or any other code at   *)
(* rest; whatever the code, the tick is run, the state message is sent and  *)
(* the loop continues.                                                      *)
C19_ActionVelocity ==
    [][(last'.op = "SDL_AppIterate" /\ game_state # NULL) =>
          \A v \in {ActionVelocity(last'.action,
                                   STARSHIP_SPEED * game_state.speed_multiplier)} :
             /\ game_state'.starship.vx = v.vx
             /\ game_state'.starship.vy = v.vy
             /\ Applied.starship.vx = v.vx
             /\ Applied.starship.vy = v.vy
             /\ CallsNext("game_state_update")
             /\ CallsNext("bridge_send_state")
             /\ \E k \in 1..Len(last'.io) : last'.io[k] = "send"
             /\ bridge'.connected
             /\ result' = "CONTINUE"]_vars

(* at speed 2.0 the loop received the code 5, which the switch does not   *)
(* name: the tick ran, the message went out, the loop continues and the   *)
(* starship is at rest                                                    *)
C19_Witness ==
    /\ last.op = "SDL_AppIterate"
    /\ last.action = 5
    /\ Called("game_state_apply_rl_action")
    /\ Called("game_state_update")
    /\ Called("bridge_send_state")
    /\ result = "CONTINUE"
    /\ game_state.speed_multiplier = 2 * F
    /\ game_state.starship.vx = 0
    /\ game_state.starship.vy = 0

(* C20: a bridge_send_state call on a connected bridge that reports        *)
(* success has written a 4-byte integer N and then the payload, N being the *)
(* number of payload bytes that were written; and when one of the two       *)
(* writes fails the bridge is Disconnected and the call reports failure.    *)
C20_LengthPrefixedMessage ==
    [][(last'.op = "bridge_send_state" /\ bridge.connected) =>
          \A w \in {last'.wire} :
             /\ result' = "true" =>
                   /\ Len(w) = 2
                   /\ w[1].ret = 4
                   /\ w[1].int = w[2].ret
                   /\ w[1].int = Len(w[2].bytes)
             /\ (\E k \in 1..Len(w) : w[k].ret = SOCKET_ERROR) =>
                   /\ ~bridge'.connected
                   /\ result' = "false"]_vars

(* the entry of a message's asteroid list for an asteroid, main.c 144-149 *)
Listed(a) == [x |-> a.x, y |-> a.y, vx |-> a.vx, vy |-> a.vy, radius |-> a.size]

(* C21: the asteroid list of a state message holds the first               *)
(* min(MaxListed, number of active asteroids) active asteroids of the       *)
(* episode the message reports, in ascending slot order: its k-th entry is  *)
(* the active asteroid with exactly k - 1 active asteroids in lower slots,  *)
(* so no inactive slot is listed and never more than MaxListed entries.     *)
C21_ListedAsteroids ==
    [][(CallsNext("bridge_build_state_json") /\ game_state' # NULL) =>
          \A list \in {last'.json.asteroids} :
          \A act \in {ActiveAsteroids(game_state')} :
             /\ Len(list) = Min(MaxListed, Cardinality(act))
             /\ Len(list) <= MaxListed
             /\ \A k \in 1..Len(list) :
                   \E j \in act :
                      /\ Cardinality({i \in act : i < j}) = k - 1
                      /\ list[k] = Listed(game_state'.asteroids[j])]_vars

(* a message was built for an episode with more than MaxListed active     *)
(* asteroids and a free slot below them: it lists MaxListed asteroids,     *)
(* the first of them from the second slot                                  *)
C21_Witness ==
    /\ Called("bridge_build_state_json")
    /\ game_state # NULL
    /\ game_state.asteroid_count > MaxListed
    /\ ~game_state.asteroids[1].active
    /\ Len(last.json.asteroids) = MaxListed
    /\ last.json.asteroids[1] = Listed(game_state.asteroids[2])

(* C22: a tick that starts with the episode running adds dt x rate to the  *)
(* spawn accumulator and takes 1.0 off for every spawn attempt, one attempt *)
(* per whole unit: the attempts are floor(accumulator before + dt x rate)   *)
(* and the accumulator ends in [0, 1), also when the pool was full.         *)
C22_SpawnAccumulator ==
    [][TickNext =>
          \A total \in {game_state.spawn_accumulator
                          + (last'.dt * SpawnRate(AtBonusCheck)) \div MS_PER_SEC} :
          \A attempts \in {(total - game_state'.spawn_accumulator) \div F} :
             /\ game_state'.spawn_accumulator >= 0
             /\ game_state'.spawn_accumulator < F
             /\ game_state'.spawn_accumulator = total - attempts * F
             /\ attempts = total \div F
             /\ attempts = Len(last'.draws)
             /\ game_state'.asteroid_count <= MAX_ASTEROIDS]_vars

(* a slow tick made more spawn attempts than the pool has slots: the pool  *)
(* is full, the other attempts were skipped, and the accumulator holds a   *)
(* fraction                                                                *)
C22_Witness ==
    /\ Called("game_state_update")
    /\ Len(last.draws) > MAX_ASTEROIDS
    /\ game_state.asteroid_count = MAX_ASTEROIDS
    /\ game_state.spawn_accumulator > 0
    /\ game_state.spawn_accumulator < F

(* C23: the spawn rate of a tick is min(0.5 + score / 100, 2.0) per second, *)
(* with the score the tick has at its scheduler: what the accumulator gains *)
(* in the tick is dt times that rate, never more than dt x 2.0, and exactly *)
(* dt x 2.0 from score 150 on.                                              *)
C23_SpawnRateCapped ==
    [][TickNext =>
          \A score \in {AtBonusCheck.score} :
          \A gain \in {game_state'.spawn_accumulator + F * Len(last'.draws)
                         - game_state.spawn_accumulator} :
             /\ gain = (last'.dt * Min(F \div 2 + (score * F) \div 100, 2 * F))
                          \div MS_PER_SEC
             /\ gain <= (last'.dt * 2 * F) \div MS_PER_SEC
             /\ score >= 150 => gain = (last'.dt * 2 * F) \div MS_PER_SEC
             /\ score < 150 => gain < (last'.dt * 2 * F) \div MS_PER_SEC]_vars

(* the first tick whose scheduler found a score of 150 or more: in 30 s  *)
(* it made 60 spawn attempts                                              *)
C23_Witness ==
    /\ Called("game_state_update")
    /\ last.dt = WarmupDt
    /\ game_state.score >= 150
    /\ game_state.score < 150 + MAX_ASTEROIDS
    /\ Len(last.draws) = (WarmupDt * 2) \div MS_PER_SEC

(* C24: the speed multiplier of the episode is strictly positive in every *)
(* reachable state, whatever --speed value was given.                      *)
C24_SpeedMultiplierPositive ==
    game_state # NULL => game_state.speed_multiplier > 0

(* C25: when game_state_create returns NULL, at startup, on a keyboard     *)
(* reset or on a controller reset, the callback reports failure, the run   *)
(* goes to its shutdown and nothing is read or written through the null    *)
(* pointer.                                                                *)
C25_AbortOnFailedCreate ==
    [][(CallsNext("game_state_create") /\ game_state' = NULL) =>
          /\ result' = "FAILURE"
          /\ pc' = "quit"]_vars

(* C26: in every reachable state the starship, 70 x 30, lies inside the   *)
(* 1024 x 768 arena: 0 <= x <= 1024 - 70 and 0 <= y <= 768 - 30.          *)
C26_StarshipInsideArena ==
    game_state # NULL =>
       /\ game_state.starship.w = 70 * F
       /\ game_state.starship.h = 30 * F
       /\ game_state.starship.x >= 0
       /\ game_state.starship.x <= (1024 - 70) * F
       /\ game_state.starship.y >= 0
       /\ game_state.starship.y <= (768 - 30) * F

(* a thrust to the right at speed 2.0 for 1.7 s would have carried the    *)
(* starship out of the arena: it stands at the right edge                 *)
C26_Witness ==
    /\ Called("game_state_update")
    /\ last.action = 3
    /\ last.dt = 1700
    /\ game_state.starship.vx = 2 * STARSHIP_SPEED * F
    /\ game_state.starship.x = (1024 - 70) * F

(* C27: for the two overlapping asteroids of a tick, d the line from the   *)
(* centre of the first to the centre of the second and dv their relative   *)
(* velocity.  If they approach (dv . d < 0) the response reverses the      *)
(* component of dv along d, changes each velocity only along d (the        *)
(* tangential components stay) and keeps the sum of the velocities; if     *)
(* they do not approach, or the centres coincide, the pair is left as it   *)
(* was, velocities and positions.                                          *)
C27_ElasticResponse ==
    [][(pc = "pair" /\ pc' = "done") =>
          \A a \in {game_state.asteroids[1]}, b \in {game_state.asteroids[2]} :
          \A a2 \in {game_state'.asteroids[1]}, b2 \in {game_state'.asteroids[2]} :
          \A d \in {[x |-> b.x - a.x, y |-> b.y - a.y]} :
          \A dv \in {[x |-> b.vx - a.vx, y |-> b.vy - a.vy]} :
          \A dv2 \in {[x |-> b2.vx - a2.vx, y |-> b2.vy - a2.vy]} :
             IF dv.x * d.x + dv.y * d.y < 0
             THEN /\ dv2.x * d.x + dv2.y * d.y = -(dv.x * d.x + dv.y * d.y)
                  /\ (a2.vx - a.vx) * d.y = (a2.vy - a.vy) * d.x
                  /\ (b2.vx - b.vx) * d.y = (b2.vy - b.vy) * d.x
                  /\ a2.vx + b2.vx = a.vx + b.vx
                  /\ a2.vy + b2.vy = a.vy + b.vy
             ELSE /\ a2 = a
                  /\ b2 = b]_vars

(* two asteroids 30 apart on a slanted line approached each other: they    *)
(* have bounced and been moved apart along that line                       *)
C27_Witness ==
    /\ pc = "done"
    /\ game_state.asteroids[2].x - game_state.asteroids[1].x > 24 * F
    /\ game_state.asteroids[2].y - game_state.asteroids[1].y > 18 * F
    /\ game_state.asteroids[1].vy # game_state.asteroids[2].vy

(* C28: bridge_receive_action returns -2 only with the bridge             *)
(* Disconnected on return.                                                 *)
C28_MinusTwoMeansDisconnected ==
    [][(last'.op = "bridge_receive_action" /\ last'.action = -2) =>
          ~bridge'.connected]_vars

(* C29: a value other than -2 that bridge_receive_action returns was       *)
(* received whole: recv delivered all 4 bytes of it.                        *)
C29_OnlyWholeActions ==
    [][(last'.op = "bridge_receive_action" /\ last'.action # -2) =>
          last'.bytes = 4]_vars

(* C30: every descriptor closed is a socket the bridge opened (the server *)
(* socket or the accepted client socket), and none is closed twice.       *)
C30_CleanupClosesOwnSockets ==
    /\ \A k \in 1..Len(closed) : closed[k] \in {ServerFd, ClientFd}
    /\ \A j, k \in 1..Len(closed) : j # k => closed[j] # closed[k]

(* C31: every reset of a running game, by the reset key while the episode  *)
(* is terminal exactly as by the controller's reset action, creates an     *)
(* episode that carries the speed multiplier configured at startup and the *)
(* same controller-mode flag as the episode it replaces.                   *)
C31_ResetKeepsConfiguration ==
    [][(/\ pc = "run" /\ game_state # NULL
        /\ CallsNext("game_state_create") /\ game_state' # NULL) =>
          /\ game_state'.speed_multiplier = speed_multiplier
          /\ game_state'.rl_mode = game_state.rl_mode]_vars

====
